---- MODULE Spec2Model ----
(***************************************************************************)
(* A model of pyaudiomod's Time-Scale Modification engines: the            *)
(* constructors, the frame segmentation, overlap-add reconstruction and    *)
(* normalisation of OLA, and the segmentation loop of WSOLA.               *)
(*                                                                         *)
(* Numbers.  Samples are integers (floats holding integral values).  A     *)
(* window is a record [coef, den]: coefficient i is coef[i] / den, so the  *)
(* products and sums the engines form are kept as exact integers "times    *)
(* den", and a quotient is kept as the pair <<numerator, denominator>>.    *)
(* Indices of the source are 0-based; sequences here are 1-based, so the   *)
(* source's x[i] is x[i + 1].                                              *)
(***************************************************************************)
EXTENDS Integers, Sequences, FiniteSets, TLC

VARIABLES
    pc,                  \* where the program is
    signal,              \* the input signal: [len, pat], sample i = pat[i % Len(pat)]
    frame_size,          \* argument / engine field
    hopsize,             \* argument of OLA.split_into_frames
    padded_signal,       \* the local `signal` of split_into_frames after the padding
    frames,              \* the frame set returned by split_into_frames
    reconstruct_hopsize, \* argument `hopsize` of reconstruct_from_frames
    output_signal,       \* the signal returned by reconstruct_from_frames / run
    error,               \* the exception that ended the call, or "none"
    init_args,           \* the arguments of the engine's constructor
    speed_factor,        \* self.speed_factor, a fraction [num, den]
    synthesis_hopsize,   \* self.synthesis_hopsize
    analysis_hopsize,    \* self.analysis_hopsize
    synthesis_window,    \* self.synthesis_window, a window [coef, den]
    overlapping_windows, \* the divisor of OLA.run: [shape, data], data times den
    frame_shift_boundaries,            \* [min_shift, max_shift]
    caller,                            \* who called WSOLA's split_into_frames
    end_of_signal,                     \* locals of WSOLA's split_into_frames
    adjusted_analysis_frame_start_idx,
    extended_frame_region_start_idx,
    optimal_shift_idx,
    normalization                      \* the divisor of WSOLA.run, times den

\* the arguments and results of split_into_frames and reconstruct_from_frames
callVars == <<signal, frame_size, hopsize, padded_signal, frames,
              reconstruct_hopsize, output_signal, error>>

\* the fields of an engine
engineVars == <<init_args, speed_factor, synthesis_hopsize, analysis_hopsize,
                synthesis_window>>

\* the state of WSOLA only
wsolaVars == <<frame_shift_boundaries, caller, end_of_signal,
               adjusted_analysis_frame_start_idx,
               extended_frame_region_start_idx, optimal_shift_idx,
               normalization>>

vars == <<pc, callVars, engineVars, overlapping_windows, wsolaVars>>

----------------------------------------------------------------------------
(* Bounds of the model *)

\* longest explicit signal of the segmentation specification
MaxLen == 5
\* largest frame_size of the segmentation specification
MaxFrame == 4
\* largest hopsize of the segmentation specification
MaxHop == 5

\* sample values of the explicit signals
SampleValues == {0, 1, 2}

\* the signals given to OLA.run are up to MaxExtraLen samples longer than a frame
MaxExtraLen == 12

\* longest explicit signal given to WSOLA's split_into_frames
MaxWsolaLen == 6
\* largest frame_size and hop sizes of the direct calls of WSOLA's
\* split_into_frames
MaxWsolaFrame == 2
MaxWsolaHop == 2

\* the signals given to the engines with default hop sizes are up to
\* MaxDefaultExtraLen samples longer than a frame
MaxDefaultExtraLen == 130

----------------------------------------------------------------------------
(* Python / numpy primitives *)

Min(a, b) == IF a <= b THEN a ELSE b
Max(a, b) == IF a >= b THEN a ELSE b
Abs(a) == IF a >= 0 THEN a ELSE -a

\* Python's a // b (floor division), b # 0
PyFloorDiv(a, b) == IF b > 0 THEN a \div b ELSE (-a) \div (-b)

\* Python's a % b (the result has the sign of b), b # 0
PyMod(a, b) == IF b > 0 THEN a % b ELSE -((-a) % (-b))

\* the sum of s[lo..hi], by halves
RECURSIVE SumOver(_, _, _)
SumOver(s, lo, hi) ==
    IF lo > hi THEN 0
    ELSE IF lo = hi THEN s[lo]
    ELSE LET mid == (lo + hi) \div 2 IN
         SumOver(s, lo, mid) + SumOver(s, mid + 1, hi)

\* the sum of a sequence
SeqSum(s) == SumOver(s, 1, Len(s))

\* np.zeros(n), n >= 0
Zeros(n) == [i \in 1..n |-> 0]

\* sample i (0-based) of a signal
At(sig, i) == sig.pat[(i % Len(sig.pat)) + 1]

\* the signal as an explicit sequence
Samples(sig) == [i \in 1..sig.len |-> At(sig, i - 1)]

\* an explicit sequence as a signal
AsSignal(s) == [len |-> Len(s), pat |-> s]

\* Python's s[start:stop] on a signal of n samples: the 0-based bounds
\* [lo, hi) of the slice, negative indices counting from the end
SliceIndex(n, i) == IF i < 0 THEN Max(i + n, 0) ELSE Min(i, n)

\* signal[start:stop] as an explicit sequence
Slice(sig, start, stop) ==
    LET lo == SliceIndex(sig.len, start)
        hi == SliceIndex(sig.len, stop)
    IN  [i \in 1..(hi - lo) |-> At(sig, lo + i - 1)]

\* the sum of a[i] * v[i + shift], i over the indices of a
Dot(a, v, shift) == SeqSum([i \in 1..Len(a) |-> a[i] * v[i + shift]])

\* np.correlate(a, v) (mode 'valid'), both non-empty: c[k] is the sum of
\* a[n + k] * v[n]; when a is the shorter one numpy correlates v with a and
\* reverses the result
Correlate(a, v) ==
    IF Len(a) >= Len(v)
    THEN [k \in 1..(Len(a) - Len(v) + 1) |-> Dot(v, a, k - 1)]
    ELSE [k \in 1..(Len(v) - Len(a) + 1) |->
             Dot(a, v, (Len(v) - Len(a)) - (k - 1))]

\* np.argmax(c): the 0-based index of the first maximum
ArgMax(c) ==
    (CHOOSE k \in 1..Len(c) :
        /\ \A j \in 1..Len(c) : c[j] <= c[k]
        /\ \A j \in 1..(k - 1) : c[j] < c[k]) - 1

\* the explicit signals of length 1..n over SampleValues
ExplicitSignals(n) ==
    { AsSignal(s) : s \in UNION { [1..k -> SampleValues] : k \in 1..n } }

----------------------------------------------------------------------------
(* OLA.split_into_frames *)

\* lines 66-73: the residual of the three hopsize cases
Residual(signal_length, fsize, hop) ==
    LET signal_length_without_last_frame == signal_length - fsize IN
    IF hop < fsize
    THEN signal_length
         - (hop * (PyFloorDiv(signal_length_without_last_frame, hop) + 1))
    ELSE IF hop > fsize
    THEN PyMod(signal_length, hop)
    ELSE fsize - PyMod(signal_length, hop)

\* lines 66-76: the number of zeros appended (0 when no padding is done);
\* a negative number is what np.zeros is then called with
NumZeros(signal_length, fsize, hop) ==
    IF PyMod(signal_length - fsize, hop) # 0
    THEN fsize - Residual(signal_length, fsize, hop)
    ELSE 0

\* line 81: the 0-based start offsets picked by [::hop] among the n windows
\* of sliding_window_view, in order
FrameStarts(n, hop) ==
    IF hop > 0
    THEN [k \in 1..(((n - 1) \div hop) + 1) |-> (k - 1) * hop]
    ELSE [k \in 1..(((n - 1) \div (-hop)) + 1) |-> (n - 1) + (k - 1) * hop]

\* the window of fsize samples starting at 0-based offset start
FrameAt(s, start, fsize) == [i \in 1..fsize |-> s[start + i]]

\* OLA.split_into_frames(signal, frame_size, hopsize) on an explicit signal:
\* [error, padded, frames]
split_into_frames(s, fsize, hop) ==
    LET signal_length == Len(s)
        raise(e) == [error |-> e, padded |-> s, frames |-> <<>>]
    IN  IF hop = 0
        THEN raise("ZeroDivisionError")
        ELSE LET nz == NumZeros(signal_length, fsize, hop) IN
             IF nz < 0
             THEN raise("ValueError")
             ELSE LET padded == s \o Zeros(nz) IN
                  IF fsize < 0 \/ fsize > Len(padded)
                  THEN [error |-> "ValueError", padded |-> padded, frames |-> <<>>]
                  ELSE LET starts == FrameStarts(Len(padded) - fsize + 1, hop) IN
                       [error  |-> "none",
                        padded |-> padded,
                        frames |-> [k \in 1..Len(starts) |->
                                       FrameAt(padded, starts[k], fsize)]]

----------------------------------------------------------------------------
(* reconstruct_from_frames *)

\* line 101 with = in place of += (used to test the claims)
AddAtOverwrite(sig, start_idx, frame) ==
    [j \in 1..Len(sig) |->
        IF start_idx < j /\ j <= start_idx + Len(frame)
        THEN frame[j - start_idx]
        ELSE sig[j]]

\* line 101: signal[start_idx:end_idx] += frames[frame_idx]
AddAt(sig, start_idx, frame) ==
    [j \in 1..Len(sig) |->
        IF start_idx < j /\ j <= start_idx + Len(frame)
        THEN sig[j] + frame[j - start_idx]
        ELSE sig[j]]

\* lines 98-101: the loop, from frame_idx (1-based) on
RECURSIVE AddFrames(_, _, _, _)
AddFrames(sig, fs, hop, frame_idx) ==
    IF frame_idx > Len(fs)
    THEN sig
    ELSE AddFrames(AddAt(sig, (frame_idx - 1) * hop, fs[frame_idx]),
                   fs, hop, frame_idx + 1)

\* line 96: the length of the buffer
ReconstructLength(num_frames, fsize, hop) == ((num_frames - 1) * hop) + fsize

\* reconstruct_from_frames(frames, hopsize), frames non-empty, hopsize >= 0
reconstruct_from_frames(fs, hop) ==
    LET num_frames == Len(fs)
        fsize == Len(fs[1])
    IN  AddFrames(Zeros(ReconstructLength(num_frames, fsize, hop)), fs, hop, 1)

----------------------------------------------------------------------------
(* TSM.__init__ and OLA.__init__ *)

\* the smallest synthesis hop size the constructor accepts
MinSynthesisHopsize == 10

\* a fraction
Frac(n, d) == [num |-> n, den |-> d]

\* the speed factor left out of the analysis hop size (used to test the claims)
IntOfProductWithoutSpeed(h, speed) == h

\* int(h * speed): the product truncated toward zero
IntOfProduct(h, speed) ==
    LET n == h * speed.num IN
    IF n >= 0 THEN n \div speed.den ELSE -((-n) \div speed.den)

\* an optional argument: <<>> is None, <<v>> is the value v
None == <<>>
Some(v) == <<v>>

\* TSM.__init__(frame_size, speed_factor, synthesis_hopsize, analysis_hopsize)
TSMInit(args) ==
    LET fsize == args.frame_size
        shop == IF args.synthesis_hopsize = None
                THEN PyFloorDiv(fsize, 4)
                ELSE args.synthesis_hopsize[1]
        ahop == IF args.analysis_hopsize = None
                THEN IntOfProduct(shop, args.speed_factor)
                ELSE args.analysis_hopsize[1]
    IN  [error |-> IF MinSynthesisHopsize <= shop /\ shop <= fsize
                   THEN "none" ELSE "ValueError",
         frame_size |-> fsize,
         speed_factor |-> args.speed_factor,
         synthesis_hopsize |-> shop,
         analysis_hopsize |-> ahop]

\* the state before and without an engine
NoEngine ==
    /\ init_args = [frame_size |-> 0, speed_factor |-> Frac(1, 1),
                    synthesis_hopsize |-> None, analysis_hopsize |-> None,
                    synthesis_window |-> [coef |-> <<>>, den |-> 1]]
    /\ speed_factor = Frac(1, 1)
    /\ synthesis_hopsize = 0
    /\ analysis_hopsize = 0
    /\ synthesis_window = [coef |-> <<>>, den |-> 1]

NoDivisor == [shape |-> "none", data |-> <<>>]

\* FrameShiftBoundaries(): the default boundaries
DefaultMinShift == -10
DefaultMaxShift == 10
FrameShiftBoundaries(lo, hi) == [min_shift |-> lo, max_shift |-> hi]

\* the state of WSOLA before a call of its split_into_frames
NoWSOLA ==
    /\ frame_shift_boundaries =
           FrameShiftBoundaries(DefaultMinShift, DefaultMaxShift)
    /\ caller = "none"
    /\ end_of_signal = FALSE
    /\ adjusted_analysis_frame_start_idx = 0
    /\ extended_frame_region_start_idx = 0
    /\ optimal_shift_idx = 0
    /\ normalization = 0

\* windows passed as synthesis_window: coefficient i (0-based) is
\* coef[i + 1] / den.  The engines are always given their window
\* explicitly: the default, utils.hann_window, has irrational coefficients
\* for every accepted frame size and is outside this model.

\* the periodic triangular window of even length n: w[0] = 0 and
\* w[i] + w[i + n/2] = 1, as for the periodic Hann window
TriangularWindow(n) ==
    [coef |-> [i \in 1..n |-> 2 * Min(i - 1, n - (i - 1))], den |-> n]

\* the all-ones window
OnesWindow(n) == [coef |-> [i \in 1..n |-> 1], den |-> 1]

----------------------------------------------------------------------------
(* OLA.run *)

\* line 115: analysis_frames * self.synthesis_window (times den)
WindowFrames(fs, w) ==
    [k \in 1..Len(fs) |-> [i \in 1..Len(fs[k]) |-> fs[k][i] * w.coef[i]]]

\* line 128: np.tile(self.synthesis_window, (num_frames, 1)) (times den)
TileWindow(w, num_frames) == [k \in 1..num_frames |-> w.coef]

\* lines 122-130: the sum of the overlapped windows (times den)
OverlappingWindows(num_frames, fsize, shop, w) ==
    IF shop = PyFloorDiv(fsize, 2)
    THEN [shape |-> "scalar", data |-> <<w.den>>]
    ELSE [shape |-> "array",
          data |-> reconstruct_from_frames(TileWindow(w, num_frames), shop)]

\* line 133 left out (used to test the claims)
KeepZeros(ow, one) == ow

\* line 133: np.where(overlapping_windows == 0, 1.0, overlapping_windows);
\* one is 1.0 times den
ReplaceZeros(ow, one) ==
    [shape |-> ow.shape,
     data |-> [i \in 1..Len(ow.data) |->
                  IF ow.data[i] = 0 THEN one ELSE ow.data[i]]]

\* line 136: output_signal /= overlapping_windows, sample i being the
\* quotient <<numerator, denominator>>; a scalar divisor is broadcast
Divide(out, ow) ==
    [i \in 1..Len(out) |->
        <<out[i], IF ow.shape = "scalar" THEN ow.data[1] ELSE ow.data[i]>>]

\* OLA.run(signal): [error, padded, frames, overlapping_windows, output]
OLA_run(s, fsize, ahop, shop, w) ==
    LET sp == split_into_frames(s, fsize, ahop) IN
    IF sp.error # "none"
    THEN [error |-> sp.error, padded |-> sp.padded, frames |-> <<>>,
          overlapping_windows |-> NoDivisor, output |-> <<>>]
    ELSE LET analysis_frames == sp.frames
             synthesis_frames == WindowFrames(analysis_frames, w)
             out == reconstruct_from_frames(synthesis_frames, shop)
             ow == ReplaceZeros(
                       OverlappingWindows(Len(analysis_frames), fsize, shop, w),
                       w.den)
         IN  [error |-> "none", padded |-> sp.padded,
              frames |-> analysis_frames,
              overlapping_windows |-> ow,
              output |-> Divide(out, ow)]

----------------------------------------------------------------------------
(* The segmentation specification: split_into_frames and                   *)
(* reconstruct_from_frames called directly                                 *)

Init ==
    /\ pc = "start"
    /\ signal \in ExplicitSignals(MaxLen)
    /\ frame_size \in -1..MaxFrame
    /\ hopsize \in -1..MaxHop
    /\ padded_signal = <<>>
    /\ frames = <<>>
    /\ reconstruct_hopsize = 0
    /\ output_signal = <<>>
    /\ error = "none"
    /\ NoEngine
    /\ overlapping_windows = NoDivisor
    /\ NoWSOLA

\* OLA.split_into_frames returns a frame set
Split ==
    /\ pc = "start"
    /\ LET r == split_into_frames(Samples(signal), frame_size, hopsize) IN
        /\ r.error = "none"
        /\ pc' = "split"
        /\ padded_signal' = r.padded
        /\ frames' = r.frames
    /\ UNCHANGED <<signal, frame_size, hopsize, reconstruct_hopsize,
                   output_signal, error, engineVars, overlapping_windows,
                   wsolaVars>>

\* OLA.split_into_frames raises
SplitRaises ==
    /\ pc = "start"
    /\ LET r == split_into_frames(Samples(signal), frame_size, hopsize) IN
        /\ r.error # "none"
        /\ pc' = "raised"
        /\ error' = r.error
        /\ padded_signal' = r.padded
    /\ UNCHANGED <<signal, frame_size, hopsize, frames, reconstruct_hopsize,
                   output_signal, engineVars, overlapping_windows,
                   wsolaVars>>

\* reconstruct_from_frames on the frame set, with any hop size
Reconstruct ==
    /\ pc = "split"
    /\ \E h \in 1..MaxHop :
        /\ reconstruct_hopsize' = h
        /\ output_signal' = reconstruct_from_frames(frames, h)
    /\ pc' = "reconstructed"
    /\ UNCHANGED <<signal, frame_size, hopsize, padded_signal, frames, error,
                   engineVars, overlapping_windows,
                   wsolaVars>>

Next == Split \/ SplitRaises \/ Reconstruct

Spec == Init /\ [][Next]_vars

----------------------------------------------------------------------------
(* The OLA specification: an engine is constructed and run on a signal *)

\* frame sizes of the engines
OLAFrameSizes == {20, 40}

\* speed factors of the engines (binary fractions: their products with a hop
\* size are exact in floating point)
OLASpeeds == {Frac(1, 2), Frac(1, 1), Frac(3, 2), Frac(2, 1)}

\* the signal of n samples, all 0 but sample p (0-based), which is 1
Impulse(n, p) == AsSignal([i \in 1..n |-> IF i = p + 1 THEN 1 ELSE 0])

\* the signal of n samples repeating pattern
Periodic(n, pattern) == [len |-> n, pat |-> pattern]

\* the signals given to an engine of frame size fsize
OLASignals(fsize) ==
    UNION { { Periodic(n, <<0>>), Periodic(n, <<1>>), Periodic(n, <<1, 2, 3>>),
              Impulse(n, n - 1) } : n \in fsize..(fsize + MaxExtraLen) }

\* frame sizes of the engines with default hop sizes
DefaultFrameSizes == {64, 256}

\* engines with explicit and default hop sizes on short signals
SmallEngines ==
    \E fsize \in OLAFrameSizes :
        /\ init_args \in
               [frame_size : {fsize},
                speed_factor : OLASpeeds,
                synthesis_hopsize :
                    {None, Some(MinSynthesisHopsize), Some(fsize \div 2),
                     Some(fsize)},
                analysis_hopsize : {None, Some(fsize + 5)},
                synthesis_window :
                    {TriangularWindow(fsize), OnesWindow(fsize)}]
        /\ signal \in OLASignals(fsize)

\* engines with default hop sizes
DefaultEngines ==
    \E fsize \in DefaultFrameSizes :
        /\ init_args \in
               [frame_size : {fsize},
                speed_factor : OLASpeeds,
                synthesis_hopsize : {None},
                analysis_hopsize : {None},
                synthesis_window : {TriangularWindow(fsize)}]
        /\ signal \in { Periodic(n, <<1, 2, 3>>) :
                           n \in fsize..(fsize + MaxDefaultExtraLen) }

OLAInit ==
    /\ pc = "new"
    /\ (SmallEngines \/ DefaultEngines)
    /\ frame_size = 0
    /\ speed_factor = Frac(1, 1)
    /\ synthesis_hopsize = 0
    /\ analysis_hopsize = 0
    /\ synthesis_window = [coef |-> <<>>, den |-> 1]
    /\ hopsize = 0
    /\ padded_signal = <<>>
    /\ frames = <<>>
    /\ reconstruct_hopsize = 0
    /\ output_signal = <<>>
    /\ error = "none"
    /\ overlapping_windows = NoDivisor
    /\ NoWSOLA

\* OLA(...) returns an engine
OLAConstruct ==
    /\ pc = "new"
    /\ LET r == TSMInit(init_args) IN
        /\ r.error = "none"
        /\ frame_size' = r.frame_size
        /\ speed_factor' = r.speed_factor
        /\ synthesis_hopsize' = r.synthesis_hopsize
        /\ analysis_hopsize' = r.analysis_hopsize
    /\ synthesis_window' = init_args.synthesis_window
    /\ pc' = "constructed"
    /\ UNCHANGED <<signal, init_args, hopsize, padded_signal, frames,
                   reconstruct_hopsize, output_signal, error,
                   overlapping_windows, wsolaVars>>

\* OLA(...) raises
OLAConstructRaises ==
    /\ pc = "new"
    /\ LET r == TSMInit(init_args) IN
        /\ r.error # "none"
        /\ error' = r.error
    /\ pc' = "raised"
    /\ UNCHANGED <<signal, frame_size, hopsize, padded_signal, frames,
                   reconstruct_hopsize, output_signal, engineVars,
                   overlapping_windows, wsolaVars>>

\* OLA.run(signal) returns the output signal
OLARun ==
    /\ pc = "constructed"
    /\ LET r == OLA_run(Samples(signal), frame_size, analysis_hopsize,
                        synthesis_hopsize, synthesis_window) IN
        /\ r.error = "none"
        /\ padded_signal' = r.padded
        /\ frames' = r.frames
        /\ overlapping_windows' = r.overlapping_windows
        /\ output_signal' = r.output
    /\ hopsize' = analysis_hopsize
    /\ reconstruct_hopsize' = synthesis_hopsize
    /\ pc' = "done"
    /\ UNCHANGED <<signal, frame_size, error, engineVars, wsolaVars>>

\* OLA.run(signal) raises
OLARunRaises ==
    /\ pc = "constructed"
    /\ LET r == OLA_run(Samples(signal), frame_size, analysis_hopsize,
                        synthesis_hopsize, synthesis_window) IN
        /\ r.error # "none"
        /\ error' = r.error
        /\ padded_signal' = r.padded
    /\ hopsize' = analysis_hopsize
    /\ pc' = "raised"
    /\ UNCHANGED <<signal, frame_size, frames, reconstruct_hopsize,
                   output_signal, engineVars, overlapping_windows,
                   wsolaVars>>

OLANext == OLAConstruct \/ OLAConstructRaises \/ OLARun \/ OLARunRaises

SpecOLA == OLAInit /\ [][OLANext]_vars

----------------------------------------------------------------------------
(* WSOLA: split_into_frames (the loop, one action per iteration) and run *)

\* line 192: the signal length below which the loop ends
EndOfSignalThreshold == 1000000

\* the length of the signal of src/main.py: np.arange(0, 5, 0.00001)
ScenarioLength == 500000

\* line 187: natural_progression
NaturalProgression(sig, start_idx, fsize, shop) ==
    Slice(sig, start_idx + shop, start_idx + shop + fsize)

\* line 188: extended_frame_region
ExtendedFrameRegion(sig, region_start_idx, fsize, bounds) ==
    Slice(sig, region_start_idx + bounds.min_shift,
          region_start_idx + fsize + bounds.max_shift)

\* line 189: np.argmax(np.correlate(natural_progression,
\* extended_frame_region)), both non-empty
OptimalShift(natural_progression, extended_frame_region, bounds) ==
    ArgMax(Correlate(natural_progression, extended_frame_region))

\* lines 234-237: the normalization (times den)
Normalization(fsize, shop, w) ==
    IF shop = PyFloorDiv(fsize, 2) THEN w.den ELSE SeqSum(w.coef)

\* WSOLA(...) returns an engine
WSOLAConstruct ==
    /\ pc = "new"
    /\ LET r == TSMInit(init_args) IN
        /\ r.error = "none"
        /\ frame_size' = r.frame_size
        /\ speed_factor' = r.speed_factor
        /\ synthesis_hopsize' = r.synthesis_hopsize
        /\ analysis_hopsize' = r.analysis_hopsize
    /\ synthesis_window' = init_args.synthesis_window
    /\ frame_shift_boundaries' =
           IF init_args.frame_shift_boundaries = None
           THEN FrameShiftBoundaries(DefaultMinShift, DefaultMaxShift)
           ELSE init_args.frame_shift_boundaries[1]
    /\ pc' = "constructed"
    /\ UNCHANGED <<signal, init_args, hopsize, padded_signal, frames,
                   reconstruct_hopsize, output_signal, error,
                   overlapping_windows, caller, end_of_signal,
                   adjusted_analysis_frame_start_idx,
                   extended_frame_region_start_idx, optimal_shift_idx,
                   normalization>>

\* WSOLA(...) raises
WSOLAConstructRaises ==
    /\ pc = "new"
    /\ LET r == TSMInit(init_args) IN
        /\ r.error # "none"
        /\ error' = r.error
    /\ pc' = "raised"
    /\ UNCHANGED <<signal, frame_size, hopsize, padded_signal, frames,
                   reconstruct_hopsize, output_signal, engineVars,
                   overlapping_windows, wsolaVars>>

\* lines 169-181: split_into_frames is entered, from WSOLA.run (line 229) or
\* called directly
WSOLAEnter ==
    /\ pc \in {"constructed", "start"}
    /\ caller' = IF pc = "constructed" THEN "run" ELSE "direct"
    /\ frames' = <<>>
    /\ end_of_signal' = FALSE
    /\ adjusted_analysis_frame_start_idx' = 0
    /\ extended_frame_region_start_idx' = analysis_hopsize
    /\ optimal_shift_idx' = 0
    /\ pc' = "loop"
    /\ UNCHANGED <<signal, frame_size, hopsize, padded_signal,
                   reconstruct_hopsize, output_signal, error, engineVars,
                   overlapping_windows, frame_shift_boundaries,
                   normalization>>

\* lines 183-198: one iteration of the loop
WSOLAIterate ==
    /\ pc = "loop"
    /\ ~end_of_signal
    /\ LET adjusted_analysis_frame ==
               Slice(signal, adjusted_analysis_frame_start_idx,
                     adjusted_analysis_frame_start_idx + frame_size)
           natural_progression ==
               NaturalProgression(signal, adjusted_analysis_frame_start_idx,
                                  frame_size, synthesis_hopsize)
           extended_frame_region ==
               ExtendedFrameRegion(signal, extended_frame_region_start_idx,
                                   frame_size, frame_shift_boundaries)
           shift == OptimalShift(natural_progression, extended_frame_region,
                                 frame_shift_boundaries)
       IN  /\ natural_progression # <<>>
           /\ extended_frame_region # <<>>
           /\ frames' = Append(frames, adjusted_analysis_frame)
           /\ optimal_shift_idx' = shift
           /\ end_of_signal' = (signal.len < EndOfSignalThreshold)
           /\ adjusted_analysis_frame_start_idx' =
                  (Len(frames') * analysis_hopsize) + shift
           /\ extended_frame_region_start_idx' =
                  (Len(frames') + 1) * analysis_hopsize
    /\ UNCHANGED <<pc, signal, frame_size, hopsize, padded_signal,
                   reconstruct_hopsize, output_signal, error, engineVars,
                   overlapping_windows, frame_shift_boundaries, caller,
                   normalization>>

\* lines 184-189: np.correlate raises ValueError on an empty slice
WSOLAIterateRaises ==
    /\ pc = "loop"
    /\ ~end_of_signal
    /\ \/ NaturalProgression(signal, adjusted_analysis_frame_start_idx,
                             frame_size, synthesis_hopsize) = <<>>
       \/ ExtendedFrameRegion(signal, extended_frame_region_start_idx,
                              frame_size, frame_shift_boundaries) = <<>>
    /\ frames' = Append(frames,
                        Slice(signal, adjusted_analysis_frame_start_idx,
                              adjusted_analysis_frame_start_idx + frame_size))
    /\ error' = "ValueError"
    /\ pc' = "raised"
    /\ UNCHANGED <<signal, frame_size, hopsize, padded_signal,
                   reconstruct_hopsize, output_signal, engineVars,
                   overlapping_windows, wsolaVars>>

\* line 200: the loop has ended and the frames are returned
WSOLAReturn ==
    /\ pc = "loop"
    /\ end_of_signal
    /\ pc' = "split"
    /\ UNCHANGED <<callVars, engineVars, overlapping_windows, wsolaVars>>

\* lines 234-243: WSOLA.run windows, normalizes and reconstructs; sample i of
\* the output is the quotient <<numerator, normalization>>
WSOLARun ==
    /\ pc = "split"
    /\ caller = "run"
    /\ Len(frames[1]) = frame_size
    /\ normalization' =
           Normalization(frame_size, synthesis_hopsize, synthesis_window)
    /\ reconstruct_hopsize' = synthesis_hopsize
    /\ output_signal' =
           LET out == reconstruct_from_frames(
                          WindowFrames(frames, synthesis_window),
                          synthesis_hopsize)
           IN  [i \in 1..Len(out) |-> <<out[i], normalization'>>]
    /\ pc' = "done"
    /\ UNCHANGED <<signal, frame_size, hopsize, padded_signal, frames, error,
                   engineVars, overlapping_windows, frame_shift_boundaries,
                   caller, end_of_signal, adjusted_analysis_frame_start_idx,
                   extended_frame_region_start_idx, optimal_shift_idx>>

\* line 240: a frame shorter than the window cannot be multiplied by it
WSOLARunRaises ==
    /\ pc = "split"
    /\ caller = "run"
    /\ Len(frames[1]) # frame_size
    /\ error' = "ValueError"
    /\ pc' = "raised"
    /\ UNCHANGED <<signal, frame_size, hopsize, padded_signal, frames,
                   reconstruct_hopsize, output_signal, engineVars,
                   overlapping_windows, wsolaVars>>

\* the shift boundaries of the direct calls
ShiftBoundaries ==
    { FrameShiftBoundaries(lo, hi) : lo \in {-1, 0}, hi \in {0, 1} }

\* split_into_frames called directly on a short signal
ShortCalls ==
    /\ signal \in ExplicitSignals(MaxWsolaLen)
    /\ frame_size \in 1..MaxWsolaFrame
    /\ synthesis_hopsize \in 1..MaxWsolaHop
    /\ analysis_hopsize \in 1..MaxWsolaHop
    /\ frame_shift_boundaries \in ShiftBoundaries

\* split_into_frames called directly on a signal that reaches the threshold,
\* with an analysis hop size that crosses it in a few frames
LongCalls ==
    /\ signal \in { Periodic(n, pattern) :
                      n \in {EndOfSignalThreshold, EndOfSignalThreshold + 1},
                      pattern \in {<<1>>, <<0, 1, 2>>, <<2, 0, 1, 1>>} }
    /\ frame_size \in 1..MaxWsolaFrame
    /\ synthesis_hopsize \in 1..MaxWsolaHop
    /\ analysis_hopsize \in
           {EndOfSignalThreshold \div 2, (EndOfSignalThreshold \div 3) + 1}
    /\ frame_shift_boundaries \in ShiftBoundaries

\* the direct calls
DirectCalls ==
    /\ pc = "start"
    /\ (ShortCalls \/ LongCalls)
    /\ init_args = [frame_size |-> 0, speed_factor |-> Frac(1, 1),
                    synthesis_hopsize |-> None, analysis_hopsize |-> None,
                    synthesis_window |-> [coef |-> <<>>, den |-> 1],
                    frame_shift_boundaries |-> None]
    /\ speed_factor = Frac(1, 1)
    /\ synthesis_window = [coef |-> <<>>, den |-> 1]

\* the engines run on a signal: small ones, and the one of src/main.py with
\* the default frame size, hop sizes and shift boundaries
WSOLAEngines ==
    \/ /\ init_args \in
              [frame_size : {20},
               speed_factor : OLASpeeds,
               synthesis_hopsize : {None, Some(MinSynthesisHopsize), Some(20)},
               analysis_hopsize : {None},
               synthesis_window : {TriangularWindow(20)},
               frame_shift_boundaries :
                   {None, Some(FrameShiftBoundaries(-1, 1))}]
       /\ signal \in { Periodic(n, <<0, 1, 2, 1>>) :
                         n \in (20 - MaxExtraLen)..(20 + (4 * MaxExtraLen)) }
    \/ /\ init_args =
              [frame_size |-> 256,
               speed_factor |-> Frac(2, 1),
               synthesis_hopsize |-> None,
               analysis_hopsize |-> None,
               synthesis_window |-> TriangularWindow(256),
               frame_shift_boundaries |-> None]
       /\ signal \in { Periodic(ScenarioLength, pattern) :
                         pattern \in {<<0, 1, 2, 1>>, <<1>>} }

\* the engine runs
EngineRuns ==
    /\ pc = "new"
    /\ WSOLAEngines
    /\ frame_size = 0
    /\ speed_factor = Frac(1, 1)
    /\ synthesis_hopsize = 0
    /\ analysis_hopsize = 0
    /\ synthesis_window = [coef |-> <<>>, den |-> 1]
    /\ frame_shift_boundaries =
           FrameShiftBoundaries(DefaultMinShift, DefaultMaxShift)

WSOLAInit ==
    /\ (DirectCalls \/ EngineRuns)
    /\ hopsize = 0
    /\ padded_signal = <<>>
    /\ frames = <<>>
    /\ reconstruct_hopsize = 0
    /\ output_signal = <<>>
    /\ error = "none"
    /\ overlapping_windows = NoDivisor
    /\ caller = "none"
    /\ end_of_signal = FALSE
    /\ adjusted_analysis_frame_start_idx = 0
    /\ extended_frame_region_start_idx = 0
    /\ optimal_shift_idx = 0
    /\ normalization = 0

WSOLANext ==
    \/ WSOLAConstruct
    \/ WSOLAConstructRaises
    \/ WSOLAEnter
    \/ WSOLAIterate
    \/ WSOLAIterateRaises
    \/ WSOLAReturn
    \/ WSOLARun
    \/ WSOLARunRaises

SpecWSOLA == WSOLAInit /\ [][WSOLANext]_vars

----------------------------------------------------------------------------
(* The configuration specification: engines of both classes are constructed *)
(* from arguments of every kind, accepted or not, and the OLA engines are   *)
(* run                                                                      *)

\* frame sizes given to the constructors
ConfigFrameSizes == {-8, 0, 8, 40, 64}

\* speed factors given to the constructors (binary fractions)
ConfigSpeeds ==
    {Frac(-1, 1), Frac(0, 1), Frac(1, 16), Frac(1, 2), Frac(7, 8), Frac(1, 1),
     Frac(3, 2)}

\* synthesis hop sizes given to a constructor of frame size fsize
ConfigSynthesisHopsizes(fsize) ==
    {None, Some(MinSynthesisHopsize - 1), Some(MinSynthesisHopsize),
     Some(fsize), Some(fsize + 1)}

\* shift boundaries given to WSOLA's constructor
ConfigShiftBoundaries ==
    {None, Some(FrameShiftBoundaries(-1, 1)), Some(FrameShiftBoundaries(1, 2)),
     Some(FrameShiftBoundaries(-2, -1))}

\* the class an argument record is for: only WSOLA.__init__ takes
\* frame_shift_boundaries
IsWSOLA(args) == "frame_shift_boundaries" \in DOMAIN args

\* OLA(...) and the signal its run is given
ConfigOLA ==
    \E fsize \in ConfigFrameSizes :
        /\ init_args \in
               [frame_size : {fsize},
                speed_factor : ConfigSpeeds,
                synthesis_hopsize : ConfigSynthesisHopsizes(fsize),
                analysis_hopsize : {None, Some(3)},
                synthesis_window : {OnesWindow(fsize)}]
        /\ signal \in { Periodic(n, <<1, 2, 3>>) :
                           n \in Max(fsize, 1)..(Max(fsize, 1) + 1) }

\* WSOLA(...)
ConfigWSOLA ==
    \E fsize \in ConfigFrameSizes :
        /\ init_args \in
               [frame_size : {fsize},
                speed_factor : ConfigSpeeds,
                synthesis_hopsize : ConfigSynthesisHopsizes(fsize),
                analysis_hopsize : {None, Some(3)},
                synthesis_window : {OnesWindow(fsize)},
                frame_shift_boundaries : ConfigShiftBoundaries]
        /\ signal = Periodic(Max(fsize, 1), <<1, 2, 3>>)

ConfigInit ==
    /\ pc = "new"
    /\ (ConfigOLA \/ ConfigWSOLA)
    /\ frame_size = 0
    /\ speed_factor = Frac(1, 1)
    /\ synthesis_hopsize = 0
    /\ analysis_hopsize = 0
    /\ synthesis_window = [coef |-> <<>>, den |-> 1]
    /\ hopsize = 0
    /\ padded_signal = <<>>
    /\ frames = <<>>
    /\ reconstruct_hopsize = 0
    /\ output_signal = <<>>
    /\ error = "none"
    /\ overlapping_windows = NoDivisor
    /\ NoWSOLA

\* the constructor of the class the arguments are for, and OLA.run
ConfigNext ==
    \/ (~IsWSOLA(init_args) /\ OLAConstruct)
    \/ (~IsWSOLA(init_args) /\ OLAConstructRaises)
    \/ (~IsWSOLA(init_args) /\ OLARun)
    \/ (~IsWSOLA(init_args) /\ OLARunRaises)
    \/ (IsWSOLA(init_args) /\ WSOLAConstruct)
    \/ (IsWSOLA(init_args) /\ WSOLAConstructRaises)

SpecConfig == ConfigInit /\ [][ConfigNext]_vars

----------------------------------------------------------------------------
(* Claims about the segmentation specification *)

\* the claims' precondition on the arguments of split_into_frames
ValidSplitArguments ==
    /\ frame_size >= 1
    /\ hopsize >= 1
    /\ signal.len >= frame_size

\* the 0-based start offset of frame k (1-based) for a positive hop
StartOf(k, hop) == (k - 1) * hop

\* the number of frames of fs, spaced hop apart, that cover 0-based index j
OverlapCount(fs, hop, j) ==
    Cardinality({ k \in 1..Len(fs) :
                    StartOf(k, hop) <= j /\ j < StartOf(k, hop) + Len(fs[k]) })

\* the sum over the frames covering 0-based index j of their sample at j
CoveringSum(fs, hop, j) ==
    SeqSum([k \in 1..Len(fs) |->
              IF StartOf(k, hop) <= j /\ j < StartOf(k, hop) + Len(fs[k])
              THEN fs[k][j - StartOf(k, hop) + 1]
              ELSE 0])

\* C1 (as claimed): for len(signal) >= frame_size >= 1 and hopsize >= 1,
\* split_into_frames does not fail, and the last real sample, index
\* len(signal) - 1, lies inside the final frame, whose other positions past
\* the signal's end are zero padding.
C1_LastSampleInFinalFrame ==
    (ValidSplitArguments /\ pc # "start") =>
        /\ pc # "raised"
        /\ LET last == StartOf(Len(frames), hopsize) IN
            /\ last <= signal.len - 1
            /\ signal.len - 1 < last + frame_size
            /\ \A i \in 1..frame_size :
                   frames[Len(frames)][i] =
                       IF last + i <= signal.len
                       THEN At(signal, last + i - 1)
                       ELSE 0

\* C2 (as claimed): for len(signal) >= frame_size >= 1 and hopsize >= 1, the
\* padded length P has (P - frame_size) divisible by hopsize, and the frames
\* are exactly the slices starting at 0, hopsize, ..., P - frame_size:
\* (P - frame_size) / hopsize + 1 of them, the last ending at the padded end.
C2_FramesTileThePaddedSignal ==
    (ValidSplitArguments /\ pc # "start") =>
        /\ pc # "raised"
        /\ LET P == Len(padded_signal) IN
            /\ (P - frame_size) % hopsize = 0
            /\ Len(frames) = ((P - frame_size) \div hopsize) + 1
            /\ StartOf(Len(frames), hopsize) + frame_size = P
            /\ \A k \in 1..Len(frames) :
                   frames[k] = FrameAt(padded_signal, StartOf(k, hopsize),
                                       frame_size)

\* C3 (as claimed): for 1 <= hopsize <= frame_size <= len(signal),
\* reconstructing the frames of the signal with the same hopsize gives, at
\* every index, the overlap count times the zero-padded signal: every
\* index i < len(signal) is covered and holds count * signal[i], every
\* trailing index holds 0.
C3_RoundTrip ==
    (/\ pc = "reconstructed"
     /\ ValidSplitArguments
     /\ hopsize <= frame_size
     /\ reconstruct_hopsize = hopsize) =>
        /\ Len(output_signal) >= signal.len
        /\ \A j \in 0..(Len(output_signal) - 1) :
            LET count == OverlapCount(frames, hopsize, j) IN
            /\ count >= 1
            /\ output_signal[j + 1] =
                   count * (IF j < signal.len THEN At(signal, j) ELSE 0)

\* C4: reconstruct_from_frames returns a signal of length
\* (num_frames - 1) * hopsize + frame_size whose value at each index j is the
\* sum of the samples at j of the frames covering j, and 0 where none does.
C4_OverlapAdd ==
    pc = "reconstructed" =>
        /\ Len(output_signal) =
               ((Len(frames) - 1) * reconstruct_hopsize) + Len(frames[1])
        /\ \A j \in 0..(Len(output_signal) - 1) :
               output_signal[j + 1] =
                   CoveringSum(frames, reconstruct_hopsize, j)

\* C4's case: two frames overlap at an index where both are non-zero, and
\* the output there is their sum
C4_Witness ==
    /\ pc = "reconstructed"
    /\ Len(frames) >= 2
    /\ reconstruct_hopsize < Len(frames[1])
    /\ frames[1][reconstruct_hopsize + 1] # 0
    /\ frames[2][1] # 0
    /\ output_signal[reconstruct_hopsize + 1] =
           frames[1][reconstruct_hopsize + 1] + frames[2][1]

\* the arguments the segmentation is documented to reject: a non-positive
\* frame size or hop size, or a frame larger than the unpadded signal
InvalidFrameParameters ==
    \/ frame_size <= 0
    \/ hopsize <= 0
    \/ frame_size > signal.len

\* C12 (as claimed): OLA.split_into_frames called with frame_size <= 0,
\* hopsize <= 0 or frame_size > len(signal) ends in an error and never
\* returns a frame set.
C12_InvalidFrameParametersRaise ==
    (pc # "start" /\ InvalidFrameParameters) => pc = "raised"

----------------------------------------------------------------------------
(* Claims about the OLA specification *)

\* w[0] = 0 and w[i] + w[i + n/2] = 1, n the (even) length of the window
HannType(w) ==
    LET n == Len(w.coef) IN
    /\ n % 2 = 0
    /\ n >= 2
    /\ w.coef[1] = 0
    /\ \A i \in 1..(n \div 2) : w.coef[i] + w.coef[i + (n \div 2)] = w.den

\* the quotient q = <<numerator, denominator>> is the integer v
QuotientIs(q, v) == q[2] # 0 /\ q[1] = v * q[2]

\* C5 (as claimed): with speed_factor = 1.0, synthesis_hopsize =
\* analysis_hopsize = frame_size / 2 and a periodic Hann-type window,
\* OLA.run's output equals the signal at every index i < len(signal), for
\* every signal with len(signal) >= frame_size.
C5_Identity ==
    (/\ pc = "done"
     /\ speed_factor.num = speed_factor.den
     /\ 2 * synthesis_hopsize = frame_size
     /\ analysis_hopsize = synthesis_hopsize
     /\ HannType(synthesis_window)
     /\ signal.len >= frame_size) =>
        \A i \in 0..(signal.len - 1) :
            /\ i < Len(output_signal)
            /\ QuotientIs(output_signal[i + 1], At(signal, i))

\* the engine was constructed with the default hop sizes
DefaultHops ==
    /\ init_args.synthesis_hopsize = None
    /\ init_args.analysis_hopsize = None

\* C6: with default hop sizes, speed_factor in {0.5, 1.0, 1.5, 2.0},
\* frame_size in {64, 256} and len(signal) >= frame_size, the length of
\* OLA.run's output differs from len(signal) / speed_factor by at most
\* frame_size samples: |len(output) * num - len(signal) * den| <=
\* frame_size * num for speed_factor = num / den.
C6_LengthRatio ==
    (/\ pc = "done"
     /\ DefaultHops
     /\ frame_size \in DefaultFrameSizes
     /\ speed_factor \in OLASpeeds
     /\ signal.len >= frame_size) =>
        Abs((Len(output_signal) * speed_factor.num)
            - (signal.len * speed_factor.den))
            <= frame_size * speed_factor.num

\* C6's case: a 300-sample signal at speed 2.0 with frame_size 256 gives two
\* frames and 320 output samples, 170 away from 150
C6_Witness ==
    /\ pc = "done"
    /\ DefaultHops
    /\ frame_size = 256
    /\ speed_factor = Frac(2, 1)
    /\ analysis_hopsize = 128
    /\ signal.len = 300
    /\ Len(frames) = 2
    /\ Len(output_signal) = 320

\* C7 (as claimed): when OLA.run divides, every entry of the divisor is
\* non-zero and the divisor has the same length as the reconstructed output.
C7_DivisorIsAnArrayOfTheOutputLength ==
    pc = "done" =>
        /\ \A i \in 1..Len(overlapping_windows.data) :
               overlapping_windows.data[i] # 0
        /\ overlapping_windows.shape = "array"
        /\ Len(overlapping_windows.data) = Len(output_signal)

\* C7 (amended): when OLA.run divides, every entry of the divisor is
\* non-zero, and the divisor is either the scalar 1.0 (synthesis_hopsize ==
\* frame_size // 2) or an array of the same length as the reconstructed
\* output; so every output sample is a quotient with a non-zero denominator.
C7_DivisorNonZero ==
    pc = "done" =>
        /\ \A i \in 1..Len(overlapping_windows.data) :
               overlapping_windows.data[i] # 0
        /\ \/ /\ overlapping_windows.shape = "scalar"
              /\ synthesis_hopsize = PyFloorDiv(frame_size, 2)
              /\ overlapping_windows.data = <<synthesis_window.den>>
           \/ /\ overlapping_windows.shape = "array"
              /\ Len(overlapping_windows.data) = Len(output_signal)
        /\ \A i \in 1..Len(output_signal) : output_signal[i][2] # 0

\* C7's case: the all-zero signal with a hop size other than frame_size // 2
\* and a window whose first coefficient is 0: the gain at index 0 is 0 and
\* the divisor there is 1.0
C7_Witness ==
    /\ pc = "done"
    /\ signal.pat = <<0>>
    /\ synthesis_hopsize # PyFloorDiv(frame_size, 2)
    /\ synthesis_window.coef[1] = 0
    /\ overlapping_windows.shape = "array"
    /\ overlapping_windows.data[1] = synthesis_window.den
    /\ output_signal[1] = <<0, synthesis_window.den>>

----------------------------------------------------------------------------
(* Claims about the WSOLA specification *)

\* an iteration of the loop of WSOLA's split_into_frames has completed
Iterated == pc \in {"loop", "split", "done"} /\ Len(frames) >= 1

\* WSOLA's split_into_frames has returned its frames
Returned == pc \in {"split", "done"}

\* WSOLA's split_into_frames has raised
SplitRaised == pc = "raised" /\ caller # "none" /\ ~end_of_signal

\* C8 (as claimed): in every iteration the shift added to
\* frame_count * analysis_hopsize to obtain the next adjusted frame start
\* satisfies min_shift <= shift <= max_shift.
C8_ShiftWithinBoundaries ==
    Iterated =>
        /\ adjusted_analysis_frame_start_idx =
               (Len(frames) * analysis_hopsize) + optimal_shift_idx
        /\ frame_shift_boundaries.min_shift <= optimal_shift_idx
        /\ optimal_shift_idx <= frame_shift_boundaries.max_shift

\* the slices of the first iteration lie inside the signal
FirstIterationInRange ==
    /\ frame_size >= 1
    /\ synthesis_hopsize >= 1
    /\ analysis_hopsize >= 1
    /\ synthesis_hopsize + frame_size <= signal.len
    /\ analysis_hopsize + frame_shift_boundaries.min_shift >= 0
    /\ analysis_hopsize + frame_size + frame_shift_boundaries.max_shift
           <= signal.len

\* the signal can supply the next frame and the next extended region
NextFrameFits ==
    /\ adjusted_analysis_frame_start_idx + frame_size <= signal.len
    /\ extended_frame_region_start_idx + frame_size
           + frame_shift_boundaries.max_shift <= signal.len

\* C9 (as claimed): WSOLA's split_into_frames returns a frame set (it does
\* not raise), the loop has exited only when the signal cannot supply the
\* next frame or the next extended region, and every appended frame has
\* exactly frame_size samples.
C9_LoopExitsWhenSignalExhausted ==
    (caller # "none" /\ FirstIterationInRange) =>
        /\ ~SplitRaised
        /\ Returned => ~NextFrameFits
        /\ \A k \in 1..Len(frames) : Len(frames[k]) = frame_size

\* C10 (as claimed): WSOLA.run with frame_size = 256, speed_factor = 2.0 and
\* default hop sizes and shift boundaries on the 500,000-sample signal
\* returns an output whose length is within 256 samples of 250,000.
C10_ScenarioLengthHalves ==
    (/\ pc = "done"
     /\ caller = "run"
     /\ DefaultHops
     /\ init_args.frame_shift_boundaries = None
     /\ frame_size = 256
     /\ speed_factor = Frac(2, 1)
     /\ signal.len = ScenarioLength) =>
        Abs((Len(output_signal) * speed_factor.num)
            - (signal.len * speed_factor.den))
            <= frame_size * speed_factor.num

\* an iteration of the loop is about to take its slices
AtIteration == pc = "loop" /\ ~end_of_signal

\* C14 (as claimed): in every iteration natural_progression is the
\* frame_size samples from adjusted_start + synthesis_hopsize and
\* extended_region the frame_size + (max_shift - min_shift) samples from
\* nominal + min_shift, all indices lying in [0, len(signal)): no slice is
\* shortened, empty or taken from a negative index.
C14_SlicesAreFull ==
    AtIteration =>
        /\ adjusted_analysis_frame_start_idx + synthesis_hopsize >= 0
        /\ adjusted_analysis_frame_start_idx + synthesis_hopsize + frame_size
               <= signal.len
        /\ Len(NaturalProgression(signal, adjusted_analysis_frame_start_idx,
                                  frame_size, synthesis_hopsize)) = frame_size
        /\ extended_frame_region_start_idx
               + frame_shift_boundaries.min_shift >= 0
        /\ extended_frame_region_start_idx + frame_size
               + frame_shift_boundaries.max_shift <= signal.len
        /\ Len(ExtendedFrameRegion(signal, extended_frame_region_start_idx,
                                   frame_size, frame_shift_boundaries))
               = frame_size + (frame_shift_boundaries.max_shift
                               - frame_shift_boundaries.min_shift)

----------------------------------------------------------------------------
(* Claims about the configuration specification *)

\* the constructor has returned an engine
Constructed == pc # "new" /\ TSMInit(init_args).error = "none"

\* C11 (as claimed): every constructed engine (OLA or WSOLA) has
\* 10 <= synthesis_hopsize <= frame_size, frame_size > 0, speed_factor > 0
\* and min_shift <= 0 <= max_shift: the constructor has raised for every
\* other configuration.
C11_ConstructedEngineIsValid ==
    Constructed =>
        /\ MinSynthesisHopsize <= synthesis_hopsize
        /\ synthesis_hopsize <= frame_size
        /\ frame_size > 0
        /\ speed_factor.num > 0
        /\ frame_shift_boundaries.min_shift <= 0
        /\ frame_shift_boundaries.max_shift >= 0

\* n is h * speed rounded to the nearest integer (a tie rounded either way)
IsRounded(n, h, speed) ==
    2 * Abs((n * speed.den) - (h * speed.num)) <= speed.den

\* C13 (as claimed): synthesis_hopsize is frame_size // 4 when not passed;
\* analysis_hopsize is the value passed, or, when not passed and
\* speed_factor is positive, synthesis_hopsize * speed_factor rounded to the
\* nearest integer.
C13_HopSizeResolution ==
    Constructed =>
        /\ init_args.synthesis_hopsize = None =>
               synthesis_hopsize = PyFloorDiv(frame_size, 4)
        /\ init_args.analysis_hopsize # None =>
               analysis_hopsize = init_args.analysis_hopsize[1]
        /\ (init_args.analysis_hopsize = None /\ speed_factor.num > 0) =>
               IsRounded(analysis_hopsize, synthesis_hopsize, speed_factor)

\* C15 (as claimed): an engine constructed with a positive speed_factor and
\* no explicit analysis_hopsize has analysis_hopsize >= 1, and its run does
\* not end in a division by zero.
C15_AnalysisHopsizePositive ==
    (/\ Constructed
     /\ init_args.analysis_hopsize = None
     /\ speed_factor.num > 0) =>
        /\ analysis_hopsize >= 1
        /\ error # "ZeroDivisionError"

====
